---------------------------- MODULE Spec2Model ----------------------------
(***************************************************************************)
(* NormyFormy: the structural compressor (compress_python_module) and the  *)
(* import-graph importance ranker (FileCompressor) of                      *)
(* src/normyformy/python_module_compressor.py.                             *)
(*                                                                         *)
(* Source text is modelled by its statement structure: a text is a         *)
(* sequence of statements, each a record [kind, value, text, body]; a      *)
(* compound statement (class, def, async def, if) carries the statements   *)
(* of its block in body.  ast.parse lays a text out on lines and builds    *)
(* the tree as a heap of nodes with identity (a sequence of node records,  *)
(* a node's id being its index), so that the in-place rewriting of         *)
(* node.body and the queue of ast.walk are modelled as the code runs them. *)
(***************************************************************************)
EXTENDS Integers, Sequences, FiniteSets, TLC

VARIABLES
    source,     \* python_module: the text handed to compress_python_module
    cfg,        \* keep_docstrings, keep_imports, include_line_count, keep_class_attributes
    heap,       \* tree: the parsed AST, mutated in place
    todo,       \* the deque of ast.walk
    pc,         \* position inside compress_python_module
    result,     \* the text returned by the last completed call
    prev,       \* the text returned by the call before it
    calls,      \* number of calls of compress_python_module started
    stdout,     \* what has been written to standard output
    file_contents,  \* FileCompressor._file_contents: (path, content) in dict order
    import_graph,   \* FileCompressor._import_graph
    files_loaded,   \* the list built by create_file_loaded_objects
    rpc             \* position inside create_file_loaded_objects

cvars == <<source, cfg, heap, todo, pc, result, prev, calls, stdout>>

rvars == <<file_contents, import_graph, files_loaded, rpc>>

vars == <<cvars, rvars>>

-----------------------------------------------------------------------------
(* Bounds of the model *)

\* Largest number of statements in a source text handed to the compressor.
MaxNodes == 3

\* Number of source lines of a user-written string statement (a docstring).
DocLines == 2

\* Largest number of files handed to the ranker.
MaxFiles == 3

\* Number of newline characters in a long file.
MaxNewlines == 49

-----------------------------------------------------------------------------
(* Source texts *)

FunctionKinds == {"FunctionDef", "AsyncFunctionDef"}

ImportKinds == {"Import", "ImportFrom"}

AssignKinds == {"Assign", "AnnAssign"}

\* Statements that carry a block of statements.
BlockKinds == FunctionKinds \cup {"ClassDef", "If"}

Stmt(kind, value, text, body) ==
    [kind |-> kind, value |-> value, text |-> text, body |-> body]

\* The simple statements of the inputs: imports, assignments and a string
\* expression statement (a docstring where it comes first in a block).
LeafStmts ==
    { Stmt(k, "none", "", <<>>) : k \in ImportKinds \cup AssignKinds }
        \cup { Stmt("Expr", "str", "doc", <<>>) }

RECURSIVE ForestsOfSize(_)
\* All statement sequences holding exactly n statements in total, every
\* block non-empty (what the grammar requires).
ForestsOfSize(n) ==
    IF n = 0 THEN { <<>> }
    ELSE UNION { { <<t>> \o f :
                     t \in (IF k = 1 THEN LeafStmts
                            ELSE { Stmt(b, "none", "", body) :
                                     b \in BlockKinds, body \in ForestsOfSize(k - 1) }),
                     f \in ForestsOfSize(n - k) } : k \in 1..n }

ValidSources == UNION { ForestsOfSize(n) : n \in 0..MaxNodes }

\* Texts that are not valid syntax: a compound statement without a block.
InvalidSources == { << Stmt(b, "none", "", <<>>) >> : b \in BlockKinds }

Configs ==
    [keep_docstrings : BOOLEAN, keep_imports : BOOLEAN,
     include_line_count : BOOLEAN, keep_class_attributes : BOOLEAN]

RECURSIVE IsValidSource(_)
\* ast.parse accepts the text: every compound statement has a block.
IsValidSource(stmts) ==
    \A i \in 1..Len(stmts) :
        stmts[i].kind \in BlockKinds =>
            /\ stmts[i].body # <<>>
            /\ IsValidSource(stmts[i].body)

-----------------------------------------------------------------------------
(* ast.parse and ast.unparse *)

\* Lines a simple statement takes: a user string takes DocLines, the
\* placeholder string and every other simple statement one line.
SpanOf(t) ==
    IF t.kind = "Expr" /\ t.value = "str" /\ t.text = "doc" THEN DocLines ELSE 1

ModuleNode ==
    [kind |-> "Module", value |-> "none", text |-> "", body |-> <<>>,
     lineno |-> 0, end_lineno |-> 0, located |-> FALSE]

RECURSIVE ParseStmts(_, _, _)
\* Parse the statements stmts, the first one starting on line `line`, adding
\* their nodes to h in pre-order.  A compound statement's header takes one
\* line and its block follows; end_lineno is the last line of the block.
ParseStmts(stmts, h, line) ==
    IF stmts = <<>> THEN [heap |-> h, ids |-> <<>>, line |-> line]
    ELSE LET t == Head(stmts)
             id == Len(h) + 1
             stub == [kind |-> t.kind, value |-> t.value, text |-> t.text,
                      body |-> <<>>, lineno |-> line,
                      end_lineno |-> line + SpanOf(t) - 1, located |-> TRUE]
             inner == IF t.kind \in BlockKinds
                      THEN ParseStmts(t.body, Append(h, stub), line + 1)
                      ELSE [heap |-> Append(h, stub), ids |-> <<>>,
                            line |-> line + SpanOf(t)]
             h2 == [inner.heap EXCEPT ![id].body = inner.ids,
                                      ![id].end_lineno = inner.line - 1]
             rest == ParseStmts(Tail(stmts), h2, inner.line)
         IN [heap |-> rest.heap, ids |-> <<id>> \o rest.ids, line |-> rest.line]

\* ast.parse(python_module): node 1 is the ast.Module.
ParseModule(text) ==
    LET r == ParseStmts(text, <<ModuleNode>>, 1)
    IN [r.heap EXCEPT ![1].body = r.ids]

RECURSIVE UnparseStmts(_, _)
\* ast.unparse of the statements ids of heap h: the text of the tree as it
\* is now, following each node's current body.
UnparseStmts(h, ids) ==
    [i \in 1..Len(ids) |->
        Stmt(h[ids[i]].kind, h[ids[i]].value, h[ids[i]].text,
             UnparseStmts(h, h[ids[i]].body))]

UnparseModule(h) == UnparseStmts(h, h[1].body)

-----------------------------------------------------------------------------
(* The passes of compress_python_module *)

\* isinstance(stmt, ast.Expr) and isinstance(stmt.value, ast.Constant) and
\* isinstance(stmt.value.value, str)
IsStrExpr(n) == n.kind = "Expr" /\ n.value = "str"

\* _filter_imports: tree.body without its Import and ImportFrom nodes.
FilterImports(h) ==
    [h EXCEPT ![1].body = SelectSeq(h[1].body, LAMBDA id : h[id].kind \notin ImportKinds)]

\* _remove_module_docstring: drop tree.body[0] when it is a string expression.
RemoveModuleDocstring(h) ==
    IF h[1].body = <<>> THEN h
    ELSE IF IsStrExpr(h[h[1].body[1]]) THEN [h EXCEPT ![1].body = Tail(h[1].body)]
    ELSE h

\* _has_docstring(node)
HasDocstring(h, id) ==
    IF h[id].body = <<>> THEN FALSE ELSE IsStrExpr(h[h[id].body[1]])

RECURSIVE CountTotalLinesExclusive(_, _)
\* Mutant of CountTotalLines: the span taken as end - start.
CountTotalLinesExclusive(h, stmts) ==
    IF stmts = <<>> THEN 0
    ELSE LET n == h[Head(stmts)]
             start == IF n.located THEN n.lineno ELSE 1
             end == IF n.located THEN n.end_lineno ELSE start
         IN (end - start) + CountTotalLinesExclusive(h, Tail(stmts))

RECURSIVE CountTotalLinesOfBodies(_, _)
\* Mutant of CountTotalLines: the lines of a compound statement are counted
\* from the body it has when it is counted, not taken from its line numbers.
CountTotalLinesOfBodies(h, stmts) ==
    IF stmts = <<>> THEN 0
    ELSE LET n == h[Head(stmts)]
             start == IF n.located THEN n.lineno ELSE 1
             end == IF n.located THEN n.end_lineno ELSE start
             own == IF n.kind \in BlockKinds
                    THEN 1 + CountTotalLinesOfBodies(h, n.body)
                    ELSE end - start + 1
         IN own + CountTotalLinesOfBodies(h, Tail(stmts))

RECURSIVE CountTotalLines(_, _)
\* _count_total_lines(stmts): a node without lineno counts from line 1, one
\* without end_lineno ends where it starts.
CountTotalLines(h, stmts) ==
    IF stmts = <<>> THEN 0
    ELSE LET n == h[Head(stmts)]
             start == IF n.located THEN n.lineno ELSE 1
             end == IF n.located THEN n.end_lineno ELSE start
         IN (end - start + 1) + CountTotalLines(h, Tail(stmts))

\* The msg of _append_placeholder.
PlaceholderMsg(h, original_body, include_line_count) ==
    IF include_line_count
    THEN "<Content purposely removed: " \o ToString(CountTotalLines(h, original_body))
             \o " lines>"
    ELSE "<Content purposely removed>"

\* ast.Expr(value=ast.Constant(value=msg, kind=None)): a new node, with no
\* line numbers.
PlaceholderNode(msg) ==
    [kind |-> "Expr", value |-> "str", text |-> msg, body |-> <<>>,
     lineno |-> 0, end_lineno |-> 0, located |-> FALSE]

\* Mutant of AppendPlaceholder: the placeholder is not appended.
AppendPlaceholderOmitted(h, id, new_body, original_body, include_line_count) ==
    [h EXCEPT ![id].body = new_body]

\* _append_placeholder followed by node.body = new_body: the placeholder is a
\* fresh node of the heap, appended to new_body.
AppendPlaceholder(h, id, new_body, original_body, include_line_count) ==
    LET p == Len(h) + 1
        h2 == Append(h, PlaceholderNode(PlaceholderMsg(h, original_body, include_line_count)))
    IN [h2 EXCEPT ![id].body = Append(new_body, p)]

\* Mutant of FunctionKept: the docstring is kept whatever keep_docstrings says.
FunctionKeptAlways(h, id, c) ==
    IF HasDocstring(h, id) THEN <<h[id].body[1]>> ELSE <<>>

\* new_body of _compress_function before the placeholder.
FunctionKept(h, id, c) ==
    IF c.keep_docstrings /\ HasDocstring(h, id) THEN <<h[id].body[1]>> ELSE <<>>

\* _compress_function(node, keep_docstrings, include_line_count)
CompressFunction(h, id, c) ==
    AppendPlaceholder(h, id, FunctionKept(h, id, c), h[id].body, c.include_line_count)

\* Mutant of ClassKept: every statement that is not a declaration is taken
\* for an attribute.
ClassKeptNonDeclarations(h, id, c) ==
    LET original_body == h[id].body
        has == c.keep_docstrings /\ HasDocstring(h, id)
        start_idx == IF has THEN 1 ELSE 0
        doc == IF has THEN <<original_body[1]>> ELSE <<>>
        attrs == IF c.keep_class_attributes
                 THEN SelectSeq(SubSeq(original_body, start_idx + 1, Len(original_body)),
                                LAMBDA s : h[s].kind \notin FunctionKinds \cup {"ClassDef"})
                 ELSE <<>>
    IN doc \o attrs

\* new_body of _compress_class before the placeholder.
ClassKept(h, id, c) ==
    LET original_body == h[id].body
        has == c.keep_docstrings /\ HasDocstring(h, id)
        start_idx == IF has THEN 1 ELSE 0
        doc == IF has THEN <<original_body[1]>> ELSE <<>>
        attrs == IF c.keep_class_attributes
                 THEN SelectSeq(SubSeq(original_body, start_idx + 1, Len(original_body)),
                                LAMBDA s : h[s].kind \in AssignKinds)
                 ELSE <<>>
    IN doc \o attrs

\* _compress_class(node, keep_docstrings, keep_class_attributes, include_line_count)
CompressClass(h, id, c) ==
    AppendPlaceholder(h, id, ClassKept(h, id, c), h[id].body, c.include_line_count)

\* The body of the loop of _walk_and_compress for one node.
Visit(h, id, c) ==
    IF h[id].kind \in FunctionKinds THEN CompressFunction(h, id, c)
    ELSE IF h[id].kind = "ClassDef" THEN CompressClass(h, id, c)
    ELSE h

-----------------------------------------------------------------------------
(* compress_python_module, step by step *)

CompressInit ==
    /\ source \in ValidSources \cup InvalidSources
    /\ cfg \in Configs
    /\ heap = <<>>
    /\ todo = <<>>
    /\ pc = "call"
    /\ result = <<>>
    /\ prev = <<>>
    /\ calls = 1
    /\ stdout = <<>>
    /\ file_contents = <<>>
    /\ import_graph = [modules |-> {}, edges |-> {}]
    /\ files_loaded = <<>>
    /\ rpc = "idle"

\* tree = ast.parse(python_module)
Parse ==
    /\ pc = "call"
    /\ IsValidSource(source)
    /\ heap' = ParseModule(source)
    /\ pc' = "parsed"
    /\ UNCHANGED <<source, cfg, todo, result, prev, calls, stdout, rvars>>

\* ast.parse raises SyntaxError, which leaves compress_python_module.
ParseError ==
    /\ pc = "call"
    /\ ~IsValidSource(source)
    /\ pc' = "error"
    /\ UNCHANGED <<source, cfg, heap, todo, result, prev, calls, stdout, rvars>>

\* if not keep_imports: _filter_imports(tree)
FilterImportsStep ==
    /\ pc = "parsed"
    /\ heap' = IF ~cfg.keep_imports THEN FilterImports(heap) ELSE heap
    /\ pc' = "filtered"
    /\ UNCHANGED <<source, cfg, todo, result, prev, calls, stdout, rvars>>

\* if not keep_docstrings: _remove_module_docstring(tree); then ast.walk(tree)
\* starts with the tree alone in its deque.
RemoveDocstringStep ==
    /\ pc = "filtered"
    /\ heap' = IF ~cfg.keep_docstrings THEN RemoveModuleDocstring(heap) ELSE heap
    /\ todo' = <<1>>
    /\ pc' = "walk"
    /\ UNCHANGED <<source, cfg, result, prev, calls, stdout, rvars>>

\* One turn of `for node in ast.walk(tree)`: ast.walk pops the next node and
\* puts its children at the end of the deque before it yields the node, and
\* then the loop body rewrites the node.
WalkStep ==
    /\ pc = "walk"
    /\ todo # <<>>
    /\ todo' = Tail(todo) \o heap[Head(todo)].body
    /\ heap' = Visit(heap, Head(todo), cfg)
    /\ UNCHANGED <<source, cfg, pc, result, prev, calls, stdout, rvars>>

\* unparsed = ast.unparse(tree); print(unparsed); return unparsed
Finish ==
    /\ pc = "walk"
    /\ todo = <<>>
    /\ result' = UnparseModule(heap)
    /\ prev' = result
    /\ stdout' = Append(stdout, UnparseModule(heap))
    /\ pc' = "done"
    /\ UNCHANGED <<source, cfg, heap, todo, calls, rvars>>

\* The caller applies compress_python_module a second time, to the text it
\* got back and with the same configuration.
CallAgain ==
    /\ pc = "done"
    /\ calls = 1
    /\ source' = result
    /\ calls' = calls + 1
    /\ heap' = <<>>
    /\ pc' = "call"
    /\ UNCHANGED <<cfg, todo, result, prev, stdout, rvars>>

CompressNext ==
    \/ Parse
    \/ ParseError
    \/ FilterImportsStep
    \/ RemoveDocstringStep
    \/ WalkStep
    \/ Finish
    \/ CallAgain

Init == CompressInit

Next == CompressNext

Spec == Init /\ [][Next]_vars

-----------------------------------------------------------------------------
(* The walk of compress_python_module, and the same rewrites in any order *)

\* The class and function declarations of a tree: the nodes the loop of
\* _walk_and_compress rewrites.
Declarations(h) == { id \in 1..Len(h) : h[id].kind \in FunctionKinds \cup {"ClassDef"} }

\* The tree as the walk finds it: after the import filter and the removal
\* of the module docstring, each applied when its flag is off.
BeforeWalk(text, c) ==
    LET parsed == ParseModule(text)
        filtered == IF ~c.keep_imports THEN FilterImports(parsed) ELSE parsed
    IN IF ~c.keep_docstrings THEN RemoveModuleDocstring(filtered) ELSE filtered

RECURSIVE WalkAndCompress(_, _, _)
\* _walk_and_compress run to its end from the deque q of ast.walk: the first
\* node is popped, its children are put at the end, and the node is rewritten.
WalkAndCompress(h, q, c) ==
    IF q = <<>> THEN h
    ELSE WalkAndCompress(Visit(h, Head(q), c), Tail(q) \o h[Head(q)].body, c)

\* As RemoveDocstringStep, but the walk that follows is given all the
\* declarations of the tree at once: todo holds the ones not yet rewritten.
OrderBegin ==
    /\ pc = "filtered"
    /\ heap' = IF ~cfg.keep_docstrings THEN RemoveModuleDocstring(heap) ELSE heap
    /\ todo' = SelectSeq([i \in 1..Len(heap) |-> i], LAMBDA id : id \in Declarations(heap))
    /\ pc' = "walk"
    /\ UNCHANGED <<source, cfg, result, prev, calls, stdout, rvars>>

\* The loop body of _walk_and_compress applied to any one of the
\* declarations not yet rewritten.
OrderWalkStep ==
    /\ pc = "walk"
    /\ \E k \in 1..Len(todo) :
          /\ heap' = Visit(heap, todo[k], cfg)
          /\ todo' = SubSeq(todo, 1, k - 1) \o SubSeq(todo, k + 1, Len(todo))
    /\ UNCHANGED <<source, cfg, pc, result, prev, calls, stdout, rvars>>

OrderNext ==
    \/ Parse
    \/ ParseError
    \/ FilterImportsStep
    \/ OrderBegin
    \/ OrderWalkStep
    \/ Finish

OrderSpec == CompressInit /\ [][OrderNext]_vars

-----------------------------------------------------------------------------
(* The ranker: paths, contents and the import graph *)

\* A path is the sequence of its parts; a part is a name split at its last
\* suffix, as pathlib splits it.
Part(stem, suffix) == [stem |-> stem, suffix |-> suffix]

\* The paths of the files handed to the ranker, relative to the directory
\* read: an entry point, a package marker, a module beside it, and a deeply
\* nested module.
Paths ==
    { << Part("main", ".py") >>,
      << Part("pkg", ""), Part("__init__", ".py") >>,
      << Part("pkg", ""), Part("util", ".py") >>,
      << Part("a", ""), Part("b", ""), Part("c", ""), Part("d", ""), Part("e", ""),
         Part("f", ""), Part("deep", ".py") >> }

\* FileCompressor._base_module
base_module == << Part("src", "") >>

\* A content is given by how many newline characters and how many other
\* characters it holds: the empty content, a one-line and a long content.
Contents ==
    { [chars |-> 0, newlines |-> 0] } \cup [chars : {1}, newlines : {0, MaxNewlines}]

RECURSIVE SeqsOver(_, _)
\* The sequences of exactly n distinct paths of P, each with a content: the
\* items of a dict in insertion order.
SeqsOver(P, n) ==
    IF n = 0 THEN { <<>> }
    ELSE UNION { { <<[path |-> q, content |-> c]>> \o r :
                     c \in Contents, r \in SeqsOver(P \ {q}, n - 1) } : q \in P }

FileContents == UNION { SeqsOver(Paths, n) : n \in 0..MaxFiles }

\* Import edges (importer, imported) a graph may hold.
CandidateEdges ==
    { <<"src.main", "src.pkg">>, <<"src.main", "src.pkg.util">>,
      <<"src.pkg.util", "src.pkg">> }

\* The import graphs: built over all the modules of the files, or built
\* without src.pkg.util, with any of the candidate edges between the modules
\* they hold.
Graphs ==
    { g \in [modules : { {"src.main", "src.pkg", "src.pkg.util", "src.a.b.c.d.e.f.deep"},
                         {"src.main", "src.pkg", "src.a.b.c.d.e.f.deep"} },
             edges : SUBSET CandidateEdges] :
        \A e \in g.edges : e[1] \in g.modules /\ e[2] \in g.modules }

\* len(self.path.parts)
depth(file) == Len(file.path)

\* len(self.content)
content_length(file) == file.content.chars + file.content.newlines

\* self.content.count("\n") + 1
line_count(file) == file.content.newlines + 1

\* path.name
PathName(path) == path[Len(path)].stem \o path[Len(path)].suffix

RECURSIVE JoinDots(_)
\* ".".join(parts)
JoinDots(parts) ==
    IF parts = <<>> THEN ""
    ELSE IF Len(parts) = 1 THEN parts[1]
    ELSE parts[1] \o "." \o JoinDots(Tail(parts))

\* Mutant of path_to_module_str: the suffix of every part is dropped, not
\* only that of the last one.
path_to_module_str_all_stems(path) ==
    LET parts == [i \in 1..Len(path) |-> path[i].stem]
        kept == IF parts[Len(parts)] = "__init__"
                THEN SubSeq(parts, 1, Len(parts) - 1)
                ELSE parts
    IN JoinDots(kept)

\* path_to_module_str(path)
path_to_module_str(path) ==
    LET parts == [i \in 1..Len(path) |->
                    IF i = Len(path) THEN path[i].stem
                    ELSE path[i].stem \o path[i].suffix]
        kept == IF parts[Len(parts)] = "__init__"
                THEN SubSeq(parts, 1, Len(parts) - 1)
                ELSE parts
    IN JoinDots(kept)

\* import_graph.find_modules_directly_imported_by(module)
find_modules_directly_imported_by(g, m) == { e[2] : e \in { x \in g.edges : x[1] = m } }

\* import_graph.find_modules_that_directly_import(module)
find_modules_that_directly_import(g, m) == { e[1] : e \in { x \in g.edges : x[2] = m } }

important_file_names == {"main.py", "app.py", "__main__.py", "core.py"}

Max(a, b) == IF a >= b THEN a ELSE b

\* Mutant of calculate_importance_feature: the entry-point bonus is left out.
calculate_importance_feature_no_bonus(file) ==
    IF content_length(file) = 0 THEN 0
    ELSE 10
         + Max(0, 60 - depth(file) * 10)
         + Cardinality(file.imports) * 10
         + Cardinality(file.imported_in) * 5
         - (line_count(file) \div 50)

\* Mutant of calculate_importance_feature: an importing module counts 10.
calculate_importance_feature_ten(file) ==
    IF content_length(file) = 0 THEN 0
    ELSE 10
         + (IF PathName(file.path) \in important_file_names THEN 1000 ELSE 0)
         + Max(0, 60 - depth(file) * 10)
         + Cardinality(file.imports) * 10
         + Cardinality(file.imported_in) * 10
         - (line_count(file) \div 50)

\* calculate_importance_feature(file)
calculate_importance_feature(file) ==
    IF content_length(file) = 0 THEN 0
    ELSE 10
         + (IF PathName(file.path) \in important_file_names THEN 1000 ELSE 0)
         + Max(0, 60 - depth(file) * 10)
         + Cardinality(file.imports) * 10
         + Cardinality(file.imported_in) * 5
         - (line_count(file) \div 50)

\* determine_importance(files_loaded)
determine_importance(files) ==
    [i \in 1..Len(files) |->
        [files[i] EXCEPT !.importance = calculate_importance_feature(files[i])]]

RECURSIVE SortAscending(_)
\* A stable sort by ascending importance: each element is put behind the
\* elements sorted so far that are not larger.
SortAscending(files) ==
    IF files = <<>> THEN <<>>
    ELSE LET n == Len(files)
             x == files[n]
             front == SortAscending(SubSeq(files, 1, n - 1))
             k == Cardinality({ i \in 1..Len(front) : front[i].importance <= x.importance })
         IN SubSeq(front, 1, k) \o <<x>> \o SubSeq(front, k + 1, Len(front))

Reverse(q) == [i \in 1..Len(q) |-> q[Len(q) + 1 - i]]

\* Mutant of SortDescending: sorted ascending and then reversed, which
\* turns equal elements around.
SortDescendingByReversal(files) == Reverse(SortAscending(files))

\* files_loaded.sort(key=lambda file: file.importance, reverse=True): the
\* list is reversed, sorted stably in ascending order and reversed again.
SortDescending(files) == Reverse(SortAscending(Reverse(files)))

-----------------------------------------------------------------------------
(* create_file_loaded_objects, step by step *)

RankInit ==
    /\ file_contents \in FileContents
    /\ import_graph \in Graphs
    /\ files_loaded = <<>>
    /\ rpc = "load"
    /\ source = <<>>
    /\ cfg = [keep_docstrings |-> TRUE, keep_imports |-> TRUE,
              include_line_count |-> TRUE, keep_class_attributes |-> TRUE]
    /\ heap = <<>>
    /\ todo = <<>>
    /\ pc = "idle"
    /\ result = <<>>
    /\ prev = <<>>
    /\ calls = 0
    /\ stdout = <<>>

\* The FileLoaded built for one item of self._file_contents, with the
\* importance -1 it is constructed with.
FileLoaded(item, g) ==
    LET module_str == path_to_module_str(base_module \o item.path)
    IN [name |-> module_str,
        path |-> item.path,
        content |-> item.content,
        importance |-> -1,
        imports |-> find_modules_directly_imported_by(g, module_str),
        imported_in |-> find_modules_that_directly_import(g, module_str)]

\* One turn of the loop over self._file_contents.items(): the FileLoaded of
\* the next file is built and appended.
LoadFile ==
    /\ rpc = "load"
    /\ Len(files_loaded) < Len(file_contents)
    /\ LET item == file_contents[Len(files_loaded) + 1]
       IN /\ path_to_module_str(base_module \o item.path) \in import_graph.modules
          /\ files_loaded' = Append(files_loaded, FileLoaded(item, import_graph))
    /\ UNCHANGED <<file_contents, import_graph, rpc, cvars>>

\* The graph does not hold the module asked for: the lookup raises, nothing
\* in create_file_loaded_objects catches it, and the call ends without a list.
LoadFileRaises ==
    /\ rpc = "load"
    /\ Len(files_loaded) < Len(file_contents)
    /\ path_to_module_str(base_module \o file_contents[Len(files_loaded) + 1].path)
           \notin import_graph.modules
    /\ rpc' = "error"
    /\ UNCHANGED <<file_contents, import_graph, files_loaded, cvars>>

\* determine_importance(files_loaded), after the loop
DetermineImportance ==
    /\ rpc = "load"
    /\ Len(files_loaded) = Len(file_contents)
    /\ files_loaded' = determine_importance(files_loaded)
    /\ rpc' = "scored"
    /\ UNCHANGED <<file_contents, import_graph, cvars>>

\* files_loaded.sort(...); return files_loaded
SortAndReturn ==
    /\ rpc = "scored"
    /\ files_loaded' = SortDescending(files_loaded)
    /\ rpc' = "returned"
    /\ UNCHANGED <<file_contents, import_graph, cvars>>

RankNext ==
    \/ LoadFile
    \/ LoadFileRaises
    \/ DetermineImportance
    \/ SortAndReturn

RankSpec == RankInit /\ [][RankNext]_vars

-----------------------------------------------------------------------------
(* The ranker on one file, over a wider range of paths *)

\* The deepest directory nesting of the paths below.
MaxDirs == 2

\* Directory names: a plain one, one that holds a dot, and one that is
\* spelled like the package marker.
DirParts == { Part("pkg", ""), Part("my", ".pkg"), Part("__init__", "") }

\* File names: modules and package markers with and without an extension,
\* and a name with two extensions.
LeafParts ==
    { Part("mod", ".py"), Part("mod", ""), Part("archive.tar", ".gz"),
      Part("__init__", ".py"), Part("__init__", ".pyi"), Part("__init__", "") }

RECURSIVE DirSeqs(_)
\* The sequences of exactly n directory names.
DirSeqs(n) ==
    IF n = 0 THEN { <<>> }
    ELSE { <<d>> \o r : d \in DirParts, r \in DirSeqs(n - 1) }

\* A file name under at most MaxDirs directories.
NamePaths == { d \o <<l>> : d \in UNION { DirSeqs(n) : n \in 0..MaxDirs }, l \in LeafParts }

\* The graph that holds the module of every file, without edges, and the
\* graph that holds nothing.
NameGraphs ==
    { [modules |-> { path_to_module_str(base_module \o q) : q \in NamePaths },
       edges |-> {}],
      [modules |-> {}, edges |-> {}] }

\* FileCompressor(file_contents, import_graph, base_module) with one file
NameInit ==
    /\ file_contents \in { << [path |-> q, content |-> c] >> : q \in NamePaths, c \in Contents }
    /\ import_graph \in NameGraphs
    /\ files_loaded = <<>>
    /\ rpc = "load"
    /\ source = <<>>
    /\ cfg = [keep_docstrings |-> TRUE, keep_imports |-> TRUE,
              include_line_count |-> TRUE, keep_class_attributes |-> TRUE]
    /\ heap = <<>>
    /\ todo = <<>>
    /\ pc = "idle"
    /\ result = <<>>
    /\ prev = <<>>
    /\ calls = 0
    /\ stdout = <<>>

NameSpec == NameInit /\ [][RankNext]_vars

-----------------------------------------------------------------------------
(* Properties of the compressor *)

\* The tree as ast.parse built it from the text of the current call, before
\* any pass touched it.
Original == ParseModule(source)

RECURSIVE Reach(_, _)
\* The nodes of h found from the statements ids by following bodies.
Reach(h, ids) ==
    IF ids = <<>> THEN {}
    ELSE {Head(ids)} \cup Reach(h, h[Head(ids)].body) \cup Reach(h, Tail(ids))

\* The nodes that ast.unparse writes out.
InOutput(h) == Reach(h, h[1].body)

RECURSIVE TextLines(_)
\* Lines a statement of a text occupies: a simple statement its span, a
\* compound statement its header line and the lines of its block.
TextLines(t) ==
    IF t.kind \in BlockKinds
    THEN 1 + (IF t.body = <<>> THEN 0
              ELSE TextLines(Head(t.body))
                       + TextLines(Stmt("If", "none", "", Tail(t.body))) - 1)
    ELSE SpanOf(t)

\* Lines occupied by the block of the statement that node id of h was
\* parsed from.
BlockLines(h, id) == TextLines(UnparseStmts(h, <<id>>)[1]) - 1

\* A node made by _append_placeholder after the parse of the current call.
IsFreshPlaceholder(id) ==
    /\ id > Len(Original)
    /\ id <= Len(heap)
    /\ IsStrExpr(heap[id])
    /\ ~heap[id].located

\* The leading docstring of original node id as a list: kept only under
\* keep_docstrings.
LeadingDoc(id) ==
    IF cfg.keep_docstrings /\ IsStrExpr(Original[Original[id].body[1]])
    THEN <<Original[id].body[1]>>
    ELSE <<>>

\* C1: when a call of compress has returned, every class declaration of its
\* input, at any nesting depth, has as its body the leading docstring (under
\* keep_docstrings, when the first original statement is one), then every
\* direct Assign/AnnAssign statement of the original body in original order
\* (under keep_class_attributes), then one new placeholder; nothing else,
\* so no method, nested class or expression statement is retained.
C1_ClassBody ==
    pc = "done" =>
        \A id \in 1..Len(Original) :
            Original[id].kind = "ClassDef" =>
                LET ob == Original[id].body
                    nb == heap[id].body
                    attrs == IF cfg.keep_class_attributes
                             THEN SelectSeq(ob, LAMBDA s : Original[s].kind \in AssignKinds)
                             ELSE <<>>
                IN /\ nb # <<>>
                   /\ SubSeq(nb, 1, Len(nb) - 1) = LeadingDoc(id) \o attrs
                   /\ IsFreshPlaceholder(nb[Len(nb)])
                   /\ \A i \in 1..(Len(nb) - 1) : heap[nb[i]] = Original[nb[i]]

\* A class holding a docstring and an attribute has been compressed under
\* keep_docstrings and keep_class_attributes: both are kept, in order, and
\* the placeholder follows.
C1_Witness ==
    /\ pc = "done"
    /\ calls = 1
    /\ cfg.keep_docstrings
    /\ cfg.keep_class_attributes
    /\ \E id \in 1..Len(Original) :
        /\ Original[id].kind = "ClassDef"
        /\ Len(Original[id].body) = 2
        /\ IsStrExpr(Original[Original[id].body[1]])
        /\ Original[Original[id].body[2]].kind \in AssignKinds
        /\ Len(heap[id].body) = 3
        /\ SubSeq(heap[id].body, 1, 2) = Original[id].body

\* C2: when a call of compress has returned, every function declaration
\* (def or async def) that is still in the output has as its body the
\* leading docstring (under keep_docstrings, when the first original
\* statement is one) followed by one new placeholder, and no other statement
\* of its original block, nested declarations included, is in the output.
C2_FunctionBody ==
    pc = "done" =>
        \A id \in InOutput(heap) :
            heap[id].kind \in FunctionKinds =>
                LET nb == heap[id].body
                IN /\ id <= Len(Original)
                   /\ nb # <<>>
                   /\ SubSeq(nb, 1, Len(nb) - 1) = LeadingDoc(id)
                   /\ IsFreshPlaceholder(nb[Len(nb)])
                   /\ \A i \in 1..(Len(nb) - 1) : heap[nb[i]] = Original[nb[i]]
                   /\ \A d \in Reach(Original, Original[id].body) :
                        d \in InOutput(heap) => <<d>> = LeadingDoc(id)

\* A function whose block held a nested declaration is in the output with
\* the placeholder alone.
C2_Witness ==
    /\ pc = "done"
    /\ calls = 1
    /\ \E id \in InOutput(heap) :
        /\ heap[id].kind \in FunctionKinds
        /\ Len(heap[id].body) = 1
        /\ \E d \in Reach(Original, Original[id].body) :
              Original[d].kind \in FunctionKinds \cup {"ClassDef"}

\* C3: with include_line_count false, compressing the text returned by
\* compress again, under the same configuration, returns the same text.
C3_Idempotent ==
    (pc = "done" /\ calls = 2 /\ ~cfg.include_line_count) => result = prev

\* C4: when a call of compress has returned, the placeholder of every class
\* and function of its input reads "<Content purposely removed: N lines>"
\* with N the number of lines of the original block (the sum of
\* end - start + 1 over its statements) under include_line_count, and
\* "<Content purposely removed>", without a number, otherwise.
C4_PlaceholderCount ==
    pc = "done" =>
        \A id \in 1..Len(Original) :
            Original[id].kind \in FunctionKinds \cup {"ClassDef"} =>
                LET nb == heap[id].body
                    msg == heap[nb[Len(nb)]].text
                IN IF cfg.include_line_count
                   THEN msg = "<Content purposely removed: "
                                  \o ToString(BlockLines(Original, id)) \o " lines>"
                   ELSE msg = "<Content purposely removed>"

\* A class whose block is one method of one single-line statement has been
\* compressed with a line count of 2, and the method, visited after the
\* class was rewritten, with a line count of 1.
C4_Witness ==
    /\ pc = "done"
    /\ calls = 1
    /\ cfg.include_line_count
    /\ \E id \in 1..Len(Original), c \in 1..Len(Original) :
        /\ Original[id].kind = "ClassDef"
        /\ Original[id].body = <<c>>
        /\ Original[c].kind \in FunctionKinds
        /\ Len(Original[c].body) = 1
        /\ heap[heap[id].body[Len(heap[id].body)]].text
               = "<Content purposely removed: 2 lines>"
        /\ heap[heap[c].body[Len(heap[c].body)]].text
               = "<Content purposely removed: 1 lines>"

\* C5: when a call of compress has returned, the module body is the original
\* module body, in order, without its import statements if keep_imports is
\* false and without the statement that was first in the original text if
\* that is a string expression and keep_docstrings is false; every other
\* module-level statement is kept.
C5_ModuleLevel ==
    pc = "done" =>
        LET ob == Original[1].body
            removed(s) ==
                \/ ~cfg.keep_imports /\ Original[s].kind \in ImportKinds
                \/ ~cfg.keep_docstrings /\ s = ob[1] /\ IsStrExpr(Original[s])
        IN heap[1].body = SelectSeq(ob, LAMBDA s : ~removed(s))

\* C6: compress writes nothing to standard output.
C6_NoSideEffect == stdout = <<>>

\* C7: the text returned by compress is valid source: every class, function
\* and other compound statement of it has a non-empty block, so a second
\* call never fails to parse it.
C7_Reparseable ==
    /\ pc = "done" => IsValidSource(result)
    /\ pc = "done" => \A id \in InOutput(heap) :
                          heap[id].kind \in BlockKinds => heap[id].body # <<>>
    /\ pc = "error" => calls = 1

\* A function inside a module-level if is returned with the placeholder as
\* its whole block.
C7_Witness ==
    /\ pc = "done"
    /\ calls = 1
    /\ \E i \in 1..Len(result) :
        /\ result[i].kind = "If"
        /\ \E j \in 1..Len(result[i].body) :
            /\ result[i].body[j].kind \in FunctionKinds
            /\ Len(result[i].body[j].body) = 1

-----------------------------------------------------------------------------
(* Properties of the ranker *)

\* The ranker has computed the importances (and perhaps returned).
Ranked == rpc \in {"scored", "returned"}

\* The terms of the score that do not depend on the content being empty,
\* from the inputs of the ranker: the path, the content and the edges of the
\* import graph at the file's module.
ScoreTerms(f, entry) ==
    (IF entry THEN 1000 ELSE 0)
    + (IF 60 - 10 * Len(f.path) > 0 THEN 60 - 10 * Len(f.path) ELSE 0)
    + 10 * Cardinality({ e \in import_graph.edges : e[1] = f.name })
    + 5 * Cardinality({ e \in import_graph.edges : e[2] = f.name })
    - ((f.content.newlines + 1) \div 50)

IsEmptyContent(f) == f.content.chars + f.content.newlines = 0

ScoreWithImporter(f, x) ==
    calculate_importance_feature(
        FileLoaded([path |-> f.path, content |-> f.content],
                   [modules |-> import_graph.modules \cup {x},
                    edges |-> import_graph.edges \cup {<<x, f.name>>}]))

\* Modules that may be made to import ranked file f: those that do not
\* import it yet, f itself excepted.
Importers(f) == (import_graph.modules \cup {"src.other"}) \ (f.imported_in \cup {f.name})

InputIndex(path) == CHOOSE k \in 1..Len(file_contents) : file_contents[k].path = path

\* C10: the returned list holds every input file exactly once, in
\* non-increasing order of importance, files of equal importance in their
\* input order.
C10_SortedStable ==
    rpc = "returned" =>
        /\ Len(files_loaded) = Len(file_contents)
        /\ \A k \in 1..Len(file_contents) :
              \E i \in 1..Len(files_loaded) :
                  /\ files_loaded[i].path = file_contents[k].path
                  /\ files_loaded[i].content = file_contents[k].content
        /\ \A i, j \in 1..Len(files_loaded) :
              i < j =>
                  /\ files_loaded[i].importance >= files_loaded[j].importance
                  /\ files_loaded[i].importance = files_loaded[j].importance
                        => InputIndex(files_loaded[i].path) < InputIndex(files_loaded[j].path)

\* Three files were returned, two of them tied, and the sort moved a file:
\* the first returned file was not the first input file.
C10_Witness ==
    /\ rpc = "returned"
    /\ Len(files_loaded) = 3
    /\ files_loaded[1].path # file_contents[1].path
    /\ \E i \in 1..2 :
        /\ files_loaded[i].importance = files_loaded[i + 1].importance
        /\ ~IsEmptyContent(files_loaded[i])

\* C11: a file whose module the import graph does not hold is loaded with
\* empty imports and imported_in, the ranker returns a record for every
\* input file, and the call never ends in an error.
C11_AbsentModuleNoError ==
    /\ rpc # "error"
    /\ rpc = "returned" => Len(files_loaded) = Len(file_contents)
    /\ \A i \in 1..Len(files_loaded) :
          files_loaded[i].name \notin import_graph.modules =>
              files_loaded[i].imports = {} /\ files_loaded[i].imported_in = {}

RECURSIVE Dotted(_, _)
\* The first n segments of segs, each followed by a dot but the last.
Dotted(segs, n) ==
    IF n = 0 THEN ""
    ELSE IF n = 1 THEN segs[1]
    ELSE Dotted(segs, n - 1) \o "." \o segs[n]

\* The name the claim gives a path: every segment as it is written, the last
\* one without its extension and left out when what remains is __init__.
DottedName(path) ==
    LET n == Len(path)
        segs == [i \in 1..n |->
                    IF i < n THEN path[i].stem \o path[i].suffix ELSE path[n].stem]
    IN Dotted(segs, IF path[n].stem = "__init__" THEN n - 1 ELSE n)

\* C12: the module name of every loaded file is the segments of its path
\* under the base directory joined by dots, the last segment without its
\* extension and dropped when it is then __init__, every other segment kept
\* as written.
C12_ModuleName ==
    \A i \in 1..Len(files_loaded) :
        files_loaded[i].name = DottedName(base_module \o files_loaded[i].path)

\* A package marker under a directory whose name holds a dot was ranked,
\* and was named after the directory.
C12_Witness ==
    /\ rpc = "returned"
    /\ \E i \in 1..Len(files_loaded) :
          /\ files_loaded[i].path = << Part("my", ".pkg"), Part("__init__", ".py") >>
          /\ files_loaded[i].name = "src.my.pkg"

\* The tree the walk of the code leaves behind for the current source.
WalkedByCode == WalkAndCompress(BeforeWalk(source, cfg), <<1>>, cfg)

\* C13: the walk of the code rewrites every class and function declaration
\* of the module, nested ones included, and whatever the order in which the
\* declarations are rewritten, the text returned, with its placeholder line
\* counts, is the text the walk of the code returns.
C13_OrderIrrelevant ==
    pc = "done" =>
        /\ \A id \in Declarations(Original) :
              LET body == WalkedByCode[id].body
              IN body # <<>> /\ body[Len(body)] > Len(Original)
        /\ result = UnparseModule(WalkedByCode)

\* A call ended in which a declaration nested in a class was rewritten
\* before the class, with line counts in the placeholders: the placeholder of
\* the nested one was made first.
C13_Witness ==
    /\ pc = "done"
    /\ cfg.include_line_count
    /\ \E parent \in Declarations(Original), child \in Declarations(Original) :
          /\ Original[parent].kind = "ClassDef"
          /\ \E j \in 1..Len(Original[parent].body) : Original[parent].body[j] = child
          /\ heap[child].body[Len(heap[child].body)]
                < heap[parent].body[Len(heap[parent].body)]

=============================================================================
